---- MODULE Spec2Model ----
(***************************************************************************)
(* CV-screening pipeline of cv-analyzer-app.                               *)
(*                                                                         *)
(* Three deployments of the submit pipeline share one datastore layout:    *)
(*   "server"  src/server.js (Express: POST /api/analyze, GET /api/results)*)
(*   "v1"      src/supabase/functions/v1/process-cv/index.ts               *)
(*   "fn"      src/supabase/functions/process-cv/index.ts                  *)
(* and a fourth handler, the credit gate of src/unnamed/part_000, is       *)
(* modelled by its own specification (SpecCredit).                         *)
(*                                                                         *)
(* Every await of the source is a suspension point and so the end of an    *)
(* action; the code between two awaits runs without interleaving (one      *)
(* JavaScript event loop) and is part of the action that resumes it.       *)
(***************************************************************************)
EXTENDS Integers, Sequences, FiniteSets, TLC

(***************************************************************************)
(* Bounds of the model.                                                    *)
(***************************************************************************)
MaxRequests == 2
MaxUploads == 2
MaxFaults == 1
MaxCredits == 2
MaxCreditRequests == 2

(***************************************************************************)
(* JavaScript values.  A value is a record tagged with its type; strings   *)
(* are TLA+ strings, arrays are tuples of values.                          *)
(***************************************************************************)
Undefined == [type |-> "undefined"]
Null == [type |-> "null"]
Str(s) == [type |-> "string", val |-> s]
Num(n) == [type |-> "number", val |-> n]
Arr(items) == [type |-> "array", val |-> items]

\* ToBoolean: undefined, null, "", 0 are falsy; arrays are truthy.
Truthy(v) ==
  CASE v.type = "undefined" -> FALSE
    [] v.type = "null" -> FALSE
    [] v.type = "string" -> v.val # ""
    [] v.type = "number" -> v.val # 0
    [] OTHER -> TRUE

\* x || null
OrNull(v) == IF Truthy(v) THEN v ELSE Null

\* Array.isArray(x)
IsArray(v) == v.type = "array"

RECURSIVE JsToString(_)
RECURSIVE JoinComma(_, _)
\* Array.prototype.join: the elements of items from index i on, null and
\* undefined as the empty string, separated by commas
JoinComma(items, i) ==
  IF i > Len(items) THEN ""
  ELSE (IF items[i].type \in {"null", "undefined"} THEN "" ELSE JsToString(items[i]))
       \o (IF i < Len(items) THEN "," ELSE "")
       \o JoinComma(items, i + 1)

\* ToString of the values the model uses; an array is its elements joined.
JsToString(v) ==
  CASE v.type = "undefined" -> "undefined"
    [] v.type = "null" -> "null"
    [] v.type = "string" -> v.val
    [] v.type = "number" -> ToString(v.val)
    [] v.type = "array" -> JoinComma(v.val, 1)
    [] OTHER -> "[object]"

RECURSIVE JsonText(_)
RECURSIVE JsonItems(_, _)
\* JSON.stringify of the elements of items from index i on
JsonItems(items, i) ==
  IF i > Len(items) THEN ""
  ELSE JsonText(items[i]) \o (IF i < Len(items) THEN "," ELSE "") \o JsonItems(items, i + 1)

\* JSON.stringify of a value inside the body of an insert: the text in which
\* the datastore receives it
JsonText(v) ==
  CASE v.type = "string" -> "\"" \o v.val \o "\""
    [] v.type = "number" -> ToString(v.val)
    [] v.type = "array" -> "[" \o JsonItems(v.val, 1) \o "]"
    [] OTHER -> "null"

(***************************************************************************)
(* Strings.                                                                *)
(***************************************************************************)
CharAt(s, i) == SubSeq(s, i, i)

\* String.prototype.startsWith
StartsWith(s, p) == Len(s) >= Len(p) /\ SubSeq(s, 1, Len(p)) = p

WhiteSpace == {" ", "\t", "\n"}

RECURSIVE SkipSpace(_, _)
\* index of the first character of s at or after i that is not white space
SkipSpace(s, i) ==
  IF i <= Len(s) /\ CharAt(s, i) \in WhiteSpace THEN SkipSpace(s, i + 1) ELSE i

RECURSIVE SkipSpaceBack(_, _)
\* index of the last character of s at or before i that is not white space
SkipSpaceBack(s, i) ==
  IF i >= 1 /\ CharAt(s, i) \in WhiteSpace THEN SkipSpaceBack(s, i - 1) ELSE i

\* String.prototype.trim
Trim(s) == SubSeq(s, SkipSpace(s, 1), SkipSpaceBack(s, Len(s)))

RECURSIVE SplitFrom(_, _, _)
\* the pieces of s from index i on, the current piece starting at index b
SplitFrom(s, b, i) ==
  IF i > Len(s) THEN << SubSeq(s, b, Len(s)) >>
  ELSE IF CharAt(s, i) = "," THEN << SubSeq(s, b, i - 1) >> \o SplitFrom(s, i + 1, i + 1)
  ELSE SplitFrom(s, b, i + 1)

\* String.prototype.split(',')
SplitComma(s) == SplitFrom(s, 1, 1)

(***************************************************************************)
(* parseInt(x) with no radix argument (ECMAScript parseInt): ToString,     *)
(* skip leading white space, optional sign, a 0x/0X prefix selects radix   *)
(* 16, then the longest run of digits of the radix.  The result is <<n>>,  *)
(* or << >> for NaN.                                                       *)
(***************************************************************************)
DigitVal(c) ==
  CASE c = "0" -> 0 [] c = "1" -> 1 [] c = "2" -> 2 [] c = "3" -> 3
    [] c = "4" -> 4 [] c = "5" -> 5 [] c = "6" -> 6 [] c = "7" -> 7
    [] c = "8" -> 8 [] c = "9" -> 9
    [] c \in {"a", "A"} -> 10 [] c \in {"b", "B"} -> 11
    [] c \in {"c", "C"} -> 12 [] c \in {"d", "D"} -> 13
    [] c \in {"e", "E"} -> 14 [] c \in {"f", "F"} -> 15
    [] OTHER -> 99

RECURSIVE DigitsEnd(_, _, _)
\* index after the longest run of radix-R digits of s that starts at i
DigitsEnd(s, i, R) ==
  IF i <= Len(s) /\ DigitVal(CharAt(s, i)) < R THEN DigitsEnd(s, i + 1, R) ELSE i

RECURSIVE DigitsValue(_, _, _, _)
\* value of the radix-R digits s[i..j-1]
DigitsValue(s, i, j, R) ==
  IF j <= i THEN 0
  ELSE DigitsValue(s, i, j - 1, R) * R + DigitVal(CharAt(s, j - 1))

ParseIntStr(s) ==
  LET a == SkipSpace(s, 1)
      neg == a <= Len(s) /\ CharAt(s, a) = "-"
      b == IF a <= Len(s) /\ CharAt(s, a) \in {"-", "+"} THEN a + 1 ELSE a
      hex == b + 1 <= Len(s) /\ SubSeq(s, b, b + 1) \in {"0x", "0X"}
      R == IF hex THEN 16 ELSE 10
      c == IF hex THEN b + 2 ELSE b
      e == DigitsEnd(s, c, R)
  IN IF e = c THEN << >>
     ELSE << (IF neg THEN -1 ELSE 1) * DigitsValue(s, c, e, R) >>

parseInt(v) == ParseIntStr(JsToString(v))

\* parseInt(x) || 0
ParseIntOrZero(v) == IF parseInt(v) = << >> THEN 0 ELSE parseInt(v)[1]


(***************************************************************************)
(* Inputs.                                                                 *)
(***************************************************************************)
Variants == {"server", "v1", "fn"}

\* uploaded files: multer's originalname/mimetype, File.name/File.type
FileKinds ==
  { [originalname |-> "cv.pdf", mimetype |-> "application/pdf"],
    [originalname |-> "cv.png", mimetype |-> "image/png"],
    [originalname |-> "cv.doc", mimetype |-> "application/msword"] }

RECURSIVE SeqsUpTo(_, _)
\* the sequences over S of length at most n
SeqsUpTo(S, n) ==
  IF n = 0 THEN { << >> }
  ELSE LET T == SeqsUpTo(S, n - 1)
       IN T \cup { Append(t, x) : t \in { u \in T : Len(u) = n - 1 }, x \in S }


NoUser == "none"
Users == {"u1"}

\* what the extractor hands back: null (caught failure), "" or text
ExtractOutcomes == << Null, Str(""), Str("Ann CV text") >>

\* what JSON.parse hands back for the model's answer
AnalysisResults ==
  << [ATS |-> Str("85%"), Name |-> Str("Ann"), Phone |-> Str("555"), Mail |-> Str("a@x.io"),
      Edu |-> Arr(<< Str("BSc"), Str("MSc") >>),
      SKILLS |-> Arr(<< Arr(<< Str("Lang"), Str("JS") >>) >>),
      EXPERIENCE |-> Arr(<< Str("Dev") >>)],
     [ATS |-> Str("65%"), Name |-> Str("Bob"), Phone |-> Undefined, Mail |-> Str("b@x.io"),
      Edu |-> Arr(<< Str("BSc") >>),
      SKILLS |-> Arr(<< Arr(<< Str("Lang"), Str("Go") >>) >>),
      EXPERIENCE |-> Arr(<< Str("Ops") >>)],
     [ATS |-> Str("N/A"), Name |-> Undefined, Phone |-> Undefined, Mail |-> Undefined,
      Edu |-> Arr(<< Str("BSc") >>),
      SKILLS |-> Undefined,
      EXPERIENCE |-> Arr(<< Str("Ops") >>)],
     [ATS |-> Str("0x50"), Name |-> Str("Cy"), Phone |-> Null, Mail |-> Str(""),
      Edu |-> Arr(<< Str("PhD") >>),
      SKILLS |-> Arr(<< >>),
      EXPERIENCE |-> Undefined],
     [ATS |-> Str("70%"), Name |-> Str("Di"), Phone |-> Str("556"), Mail |-> Undefined,
      Edu |-> Arr(<< Str("BSc") >>),
      SKILLS |-> Arr(<< Null >>),
      EXPERIENCE |-> Arr(<< Str("QA") >>)],
     [ATS |-> Num(80), Name |-> Str("Ed"), Phone |-> Undefined, Mail |-> Undefined,
      Edu |-> Str("BSc"),
      SKILLS |-> Arr(<< Str("JS") >>),
      EXPERIENCE |-> Undefined],
     [ATS |-> Arr(<< Str("85%") >>), Name |-> Str("Flo"), Phone |-> Undefined, Mail |-> Undefined,
      Edu |-> Arr(<< Str("BSc") >>),
      SKILLS |-> Undefined,
      EXPERIENCE |-> Undefined] >>

(***************************************************************************)
(* State.                                                                  *)
(***************************************************************************)
VARIABLES
  variant,            \* which deployment serves the requests
  submissions,        \* table submissions(id, keywords, user_id)
  cv_results,         \* table cv_results(id, submission_id, original_filename, ats_score, ...)
  education_details,  \* table education_details(id, cv_result_id, institution)
  experience_details, \* table experience_details(id, cv_result_id, description)
  skill_details,      \* table skill_details(id, cv_result_id, category, details)
  req,                \* per submit request: handler position, inputs, response
  bg,                 \* per submit request: the background loop and its locals
  log,                \* history: what happened to each file of each request
  poll,               \* the last response of GET /api/results/:id
  faults,             \* history: number of datastore inserts that have failed
  credits,            \* table profiles(id, credits)
  granted,            \* history: the balance each profile started with
  creq                \* per request of the credit handler: position, locals, response

vars == << variant, submissions, cv_results, education_details, experience_details,
           skill_details, req, bg, log, poll, faults, credits, granted, creq >>

tables == << submissions, cv_results, education_details, experience_details, skill_details >>
pipelineVars == << variant, submissions, cv_results, education_details, experience_details,
                   skill_details, req, bg, log, poll, faults >>
creditVars == << credits, granted, creq >>

Requests == 1 .. MaxRequests

IdleReq == [pc |-> "idle", user |-> NoUser, files |-> << >>, keywords |-> Undefined,
            status |-> 0, submissionId |-> 0]
IdleBg == [pc |-> "idle", i |-> 0, submission_id |-> 0, keywords |-> Undefined,
           extracted_text |-> Null,
           analysis_result |-> Null, score |-> 0, cv_result_id |-> 0]
NoPoll == [id |-> 0, outcome |-> "none", status |-> 0, totalCVs |-> 0,
           analysisKeywords |-> << >>, results |-> << >>]

CreditRequests == 1 .. MaxCreditRequests
CreditUsers == {"u1", "u2"}
IdleCreq == [pc |-> "idle", user |-> NoUser, body |-> 0, finalKeywords |-> << >>,
             status |-> 0, error |-> ""]

InitPipeline ==
  /\ submissions = << >>
  /\ cv_results = << >>
  /\ education_details = << >>
  /\ experience_details = << >>
  /\ skill_details = << >>
  /\ req = [r \in Requests |-> IdleReq]
  /\ bg = [r \in Requests |-> IdleBg]
  /\ log = [r \in Requests |-> << >>]
  /\ poll = NoPoll
  /\ faults = 0

Init ==
  /\ variant \in Variants
  /\ InitPipeline
  /\ credits = [u \in CreditUsers |-> 0]
  /\ granted = credits
  /\ creq = [c \in CreditRequests |-> IdleCreq]

(***************************************************************************)
(* Submit: POST /api/analyze (server.js) and the Deno.serve handlers.      *)
(***************************************************************************)
\* file.mimetype.startsWith('image/') / file.mimetype === 'application/pdf'
IsImage(file) == StartsWith(file.mimetype, "image/")
\* IsPdf as a prefix test on the type
IsPdf_Prefix(file) == StartsWith(file.mimetype, "application/")
IsPdf(file) == file.mimetype = "application/pdf"
Supported(file) == IsImage(file) \/ IsPdf(file)

\* number of files uploaded so far by all requests
RECURSIVE Uploaded(_)
Uploaded(n) == IF n = 0 THEN 0 ELSE Len(req[n].files) + Uploaded(n - 1)

\* the batches a request may carry, and those the upload bound still admits
Batches == SeqsUpTo(FileKinds, MaxUploads)
Admitted(files) == Len(files) + Uploaded(MaxRequests) <= MaxUploads

\* The keywords form field of the requests the model draws from: missing from
\* the body (for the batches that start with an image), or a string, which
\* differs from one request to the other.
KeywordsOf(r, files) ==
  IF Len(files) > 0 /\ IsImage(files[1]) THEN Undefined
  ELSE IF r = 1 THEN Str("js, sql") ELSE Str("go")

\* request slots are taken in order: the slot number is only a name
NextSlot(r) == req[r].pc = "idle" /\ (IF r = 1 THEN TRUE ELSE req[r - 1].pc # "idle")

\* server.js 88-101: no file -> 400, otherwise the submissions insert is issued
ServerAnalyze(r, files) ==
  /\ variant = "server"
  /\ NextSlot(r)
  /\ Admitted(files)
  /\ req' = [req EXCEPT ![r] =
       IF Len(files) = 0
       THEN [@ EXCEPT !.pc = "done", !.status = 400]
       ELSE [@ EXCEPT !.pc = "insert", !.files = files, !.keywords = KeywordsOf(r, files)]]
  /\ log' = [log EXCEPT ![r] = [i \in 1 .. Len(files) |->
               [state |-> "todo", text |-> Null, keywords |-> Undefined, analysis |-> Null,
                cv |-> 0, failed |-> {}]]]
  /\ UNCHANGED << variant, tables, bg, poll, faults, creditVars >>

\* v1 74-113, fn 1-41: env check (fn), auth.getUser, formData, no file -> 400
EdgeServe(r, envOk, user, files) ==
  /\ variant \in {"v1", "fn"}
  /\ NextSlot(r)
  /\ Admitted(files)
  /\ req' = [req EXCEPT ![r] =
       IF variant = "fn" /\ ~envOk THEN [@ EXCEPT !.pc = "done", !.status = 500]
       ELSE IF user = NoUser THEN [@ EXCEPT !.pc = "done", !.status = 401]
       ELSE IF Len(files) = 0 THEN [@ EXCEPT !.pc = "done", !.user = user, !.status = 400]
       ELSE [@ EXCEPT !.pc = "insert", !.user = user, !.files = files,
                      !.keywords = KeywordsOf(r, files)]]
  /\ log' = [log EXCEPT ![r] =
       IF (variant = "fn" /\ ~envOk) \/ user = NoUser THEN << >>
       ELSE [i \in 1 .. Len(files) |->
               [state |-> "todo", text |-> Null, keywords |-> Undefined, analysis |-> Null,
                cv |-> 0, failed |-> {}]]]
  /\ UNCHANGED << variant, tables, bg, poll, faults, creditVars >>

(***************************************************************************)
(* The background loop: processFiles (server.js 151-203) and the async     *)
(* IIFEs (v1 116-169, fn 44-101).                                          *)
(***************************************************************************)
RECURSIVE FirstSupported(_, _)
\* the first index at or after j of a file the extractor accepts, else Len+1
FirstSupported(files, j) ==
  IF j > Len(files) \/ Supported(files[j]) THEN j ELSE FirstSupported(files, j + 1)

\* Where the loop suspends next once iteration i is over.  server.js has no
\* await in the iteration of an unsupported file, so it runs on to the next
\* supported one; the edge loops await file.arrayBuffer() first in every
\* iteration.
NextIndex(files, i) ==
  IF variant = "server" THEN FirstSupported(files, i + 1) ELSE i + 1

\* the outcome ok of a datastore insert, within the bound on failures
Outcome(ok) ==
  /\ ok \/ faults < MaxFaults
  /\ faults' = IF ok THEN faults ELSE faults + 1

LoopAfter(b, files, i) ==
  LET j == NextIndex(files, i)
  IN IF j > Len(files)
     THEN [b EXCEPT !.pc = "done", !.i = j, !.extracted_text = Null,
                    !.analysis_result = Null, !.score = 0, !.cv_result_id = 0]
     ELSE [b EXCEPT !.pc = IF variant = "server" THEN "extract" ELSE "buffer",
                    !.i = j, !.extracted_text = Null,
                    !.analysis_result = Null, !.score = 0, !.cv_result_id = 0]

\* history: files i+1 .. NextIndex-1 were passed over, file NextIndex is running
LogAfter(l, files, i) ==
  LET j == NextIndex(files, i)
  IN [k \in 1 .. Len(l) |->
        IF k > i /\ k < j THEN [l[k] EXCEPT !.state = "finished"]
        ELSE IF k = j THEN [l[k] EXCEPT !.state = "running"]
        ELSE l[k]]

\* iteration i of request r ends normally: the loop moves on
FinishFile(r, entry) ==
  LET i == bg[r].i
      l == [log[r] EXCEPT ![i] = [entry EXCEPT !.state = "finished"]]
  IN /\ bg' = [bg EXCEPT ![r] = LoopAfter(@, req[r].files, i)]
     /\ log' = [log EXCEPT ![r] = LogAfter(l, req[r].files, i)]

\* iteration i of request r throws: server.js and v1 leave the rejection
\* unhandled, fn catches it around the whole loop (fn 98-100); either way the
\* remaining files are not visited
AbortLoop(r, entry) ==
  /\ bg' = [bg EXCEPT ![r].pc = IF variant = "fn" THEN "caught" ELSE "crashed"]
  /\ log' = [log EXCEPT ![r][bg[r].i] = [entry EXCEPT !.state = "aborted"]]

\* the value a datastore column keeps: an undefined property is not sent
DbVal(v) == IF v.type = "undefined" THEN Null ELSE v

\* a text column keeps a string as it is, and a number or an array as the
\* JSON text it was sent in
DbText(v) == IF v.type \in {"number", "array"} THEN Str(JsonText(v)) ELSE DbVal(v)

\* SubmissionRow with the keywords left out of the inserted object
SubmissionRow_NoKeywords(r, id) ==
  [id |-> id, keywords |-> Null, user_id |-> req[r].user, src |-> r]

\* the row of server.js 95 (v1 108, fn 37): keywords, and user_id in the edge code
SubmissionRow(r, id) ==
  [id |-> id, keywords |-> DbVal(req[r].keywords), user_id |-> req[r].user,
   src |-> r]   \* history: the request that wrote the row

\* Respond held back until the loop is over: the handler stays suspended
Respond_AfterLoop(r, id) ==
  [req EXCEPT ![r].pc = "awaiting", ![r].submissionId = id]

\* server.js 108 (v1 171-174, fn 103-106): the success response
Respond(r, id) ==
  [req EXCEPT ![r].pc = "done", ![r].status = 200, ![r].submissionId = id]

\* server.js 93-109, v1 106-174, fn 35-106: the submissions insert returns.
\* On success the loop is started and runs up to its first await, then the
\* response is sent.
SubmissionInserted(r, ok) ==
  /\ Outcome(ok)
  /\ req[r].pc = "insert"
  /\ IF ~ok
     THEN /\ req' = [req EXCEPT ![r].pc = "done",
                                ![r].status = IF variant = "server" THEN 500 ELSE 400]
          /\ UNCHANGED << submissions, bg, log >>
     ELSE LET id == Len(submissions) + 1
          IN /\ submissions' = Append(submissions, SubmissionRow(r, id))
             /\ bg' = [bg EXCEPT ![r] = LoopAfter([@ EXCEPT !.submission_id = id,
                                                            !.keywords = req[r].keywords],
                                                 req[r].files, 0)]
             /\ log' = [log EXCEPT ![r] = LogAfter(@, req[r].files, 0)]
             /\ req' = Respond(r, id)
  /\ UNCHANGED << variant, cv_results, education_details, experience_details,
                  skill_details, poll, creditVars >>

\* v1 118-125, fn 47-54: file.arrayBuffer() returns; an unsupported file has
\* nothing further to await
ReadBuffer(r) ==
  /\ bg[r].pc = "buffer"
  /\ IF Supported(req[r].files[bg[r].i])
     THEN /\ bg' = [bg EXCEPT ![r].pc = "extract"]
          /\ UNCHANGED log
     ELSE FinishFile(r, log[r][bg[r].i])
  /\ UNCHANGED << variant, tables, req, poll, faults, creditVars >>

\* Extract that tests the text against null only: an empty text is analysed
Extract_EmptyAnalysed(r, t) ==
  /\ bg[r].pc = "extract"
  /\ LET text == ExtractOutcomes[t]
         entry == [log[r][bg[r].i] EXCEPT !.text = text]
     IN IF text # Null
        THEN /\ bg' = [bg EXCEPT ![r].pc = "analyze", ![r].extracted_text = text]
             /\ log' = [log EXCEPT ![r][bg[r].i] = [entry EXCEPT !.keywords = bg[r].keywords]]
        ELSE FinishFile(r, entry)
  /\ UNCHANGED << variant, tables, req, poll, faults, creditVars >>

\* server.js 39-52, 153-161: getTextFromImage / getTextFromPdf returns (null
\* when the call failed); with text the analysis call is issued with the
\* keywords parameter of the loop
Extract(r, t) ==
  /\ bg[r].pc = "extract"
  /\ LET text == ExtractOutcomes[t]
         entry == [log[r][bg[r].i] EXCEPT !.text = text]
     IN IF Truthy(text)
        THEN /\ bg' = [bg EXCEPT ![r].pc = "analyze", ![r].extracted_text = text]
             /\ log' = [log EXCEPT ![r][bg[r].i] = [entry EXCEPT !.keywords = bg[r].keywords]]
        ELSE FinishFile(r, entry)
  /\ UNCHANGED << variant, tables, req, poll, faults, creditVars >>

\* Analyze without the catch of analyzeCvText: a failed call ends the loop
Analyze_Uncaught(r, a) ==
  /\ bg[r].pc = "analyze"
  /\ IF a = 0
     THEN AbortLoop(r, log[r][bg[r].i])
     ELSE /\ bg' = [bg EXCEPT ![r].pc = "cvinsert",
                              ![r].analysis_result = AnalysisResults[a],
                              ![r].score = ParseIntOrZero(AnalysisResults[a].ATS)]
          /\ log' = [log EXCEPT ![r][bg[r].i].analysis = AnalysisResults[a]]
  /\ UNCHANGED << variant, tables, req, poll, faults, creditVars >>

\* server.js 54-82, 161-179: analyzeCvText returns (null when the call threw or
\* the answer did not parse, a = 0); with a result the score is derived and
\* the cv_results insert is issued
Analyze(r, a) ==
  /\ bg[r].pc = "analyze"
  /\ IF a = 0
     THEN FinishFile(r, log[r][bg[r].i])
     ELSE /\ bg' = [bg EXCEPT ![r].pc = "cvinsert",
                              ![r].analysis_result = AnalysisResults[a],
                              ![r].score = ParseIntOrZero(AnalysisResults[a].ATS)]
          /\ log' = [log EXCEPT ![r][bg[r].i].analysis = AnalysisResults[a]]
  /\ UNCHANGED << variant, tables, req, poll, faults, creditVars >>

(***************************************************************************)
(* Persisting one analysis: the cv_results row, then the detail rows.      *)
(***************************************************************************)
\* the "Very Good" limit of server.js 184 (v1 151, fn 80): score > 65
ScoreThreshold == 65

Stages == << "edu", "exp", "skill" >>

StageField(a, stage) ==
  CASE stage = "edu" -> a.Edu
    [] stage = "exp" -> a.EXPERIENCE
    [] stage = "skill" -> a.SKILLS

\* item[k] of JavaScript (k from 0) for an item that is not null or undefined
Index(v, k) ==
  CASE v.type = "array" -> IF k + 1 <= Len(v.val) THEN v.val[k + 1] ELSE Undefined
    [] v.type = "string" -> IF k + 1 <= Len(v.val) THEN Str(CharAt(v.val, k + 1)) ELSE Undefined
    [] OTHER -> Undefined

\* item[0] throws a TypeError on null and undefined
Unindexable(v) == v.type \in {"null", "undefined"}

\* x?.length is truthy
HasLength(v) == v.type \in {"string", "array"} /\ Len(v.val) > 0

\* DetailStep that passes over an array of one element
DetailStep_SkipSingle(v, stage) ==
  IF ~(Truthy(v) /\ IsArray(v)) THEN "skip"
  ELSE IF stage = "skill" /\ \E k \in 1 .. Len(v.val) : Unindexable(v.val[k]) THEN "throw"
  ELSE IF Len(v.val) > 1 THEN "insert"
  ELSE "skip"

\* What the block of one detail table does before its await:
\*   server.js 187-198  if (x && Array.isArray(x)) { map; if (length > 0) await insert }
\*   v1 153-164, fn 82-93  if (x?.length) { map; await insert }
\* map throws on a value that is no array, the SKILLS callback on an item
\* that cannot be indexed.
DetailStep(v, stage) ==
  IF variant = "server"
  THEN IF ~(Truthy(v) /\ IsArray(v)) THEN "skip"
       ELSE IF stage = "skill" /\ \E k \in 1 .. Len(v.val) : Unindexable(v.val[k]) THEN "throw"
       ELSE IF Len(v.val) > 0 THEN "insert"
       ELSE "skip"
  ELSE IF ~HasLength(v) THEN "skip"
       ELSE IF ~IsArray(v) THEN "throw"
       ELSE IF stage = "skill" /\ \E k \in 1 .. Len(v.val) : Unindexable(v.val[k]) THEN "throw"
       ELSE "insert"

RECURSIVE StageFrom(_, _)
\* the first detail block at or after position p that awaits an insert
\* ("edu", "exp", "skill"), "throw" if a block before it throws, "end" if none
StageFrom(a, p) ==
  IF p > Len(Stages) THEN "end"
  ELSE LET o == DetailStep(StageField(a, Stages[p]), Stages[p])
       IN IF o = "insert" THEN Stages[p]
          ELSE IF o = "throw" THEN "throw"
          ELSE StageFrom(a, p + 1)

\* run the detail blocks from position p up to the next await
DetailsFrom(r, p, entry) ==
  LET s == StageFrom(bg[r].analysis_result, p)
  IN IF s = "end" THEN FinishFile(r, entry)
     ELSE IF s = "throw" THEN AbortLoop(r, entry)
     ELSE /\ bg' = [bg EXCEPT ![r].pc = s]
          /\ log' = [log EXCEPT ![r][bg[r].i] = entry]

\* CvRow that takes the newest submissions row for the batch of the file
CvRow_LatestSubmission(r, id) ==
  LET a == bg[r].analysis_result
      file == req[r].files[bg[r].i]
  IN [id |-> id,
      submission_id |-> Len(submissions),
      original_filename |-> file.originalname,
      ats_score |-> DbText(OrNull(a.ATS)),
      candidate_name |-> DbVal(OrNull(a.Name)),
      candidate_email |-> DbVal(OrNull(a.Mail)),
      candidate_phone |-> DbVal(OrNull(a.Phone)),
      full_text |-> bg[r].extracted_text,
      src |-> << r, bg[r].i >>]

\* the primary row of server.js 169-177 (v1 134-142, fn 63-71)
CvRow(r, id) ==
  LET a == bg[r].analysis_result
      file == req[r].files[bg[r].i]
  IN [id |-> id,
      submission_id |-> bg[r].submission_id,
      original_filename |-> file.originalname,
      ats_score |-> DbText(OrNull(a.ATS)),
      candidate_name |-> DbVal(OrNull(a.Name)),
      candidate_email |-> DbVal(OrNull(a.Mail)),
      candidate_phone |-> DbVal(OrNull(a.Phone)),
      full_text |-> bg[r].extracted_text,
      src |-> << r, bg[r].i >>]   \* history: the loop iteration that wrote the row

\* score > 65
AboveThreshold(score) == score > ScoreThreshold

\* CvInserted that does not read the error of the insert: the detail blocks
\* run for a file without a cv_results row
CvInserted_ErrorUnread(r, ok) ==
  /\ Outcome(ok)
  /\ bg[r].pc = "cvinsert"
  /\ LET id == IF ok THEN Len(cv_results) + 1 ELSE 0
         entry == IF ok THEN [log[r][bg[r].i] EXCEPT !.cv = id]
                  ELSE [log[r][bg[r].i] EXCEPT !.failed = @ \cup {"cv"}]
     IN /\ cv_results' = IF ok THEN Append(cv_results, CvRow(r, id)) ELSE cv_results
        /\ IF AboveThreshold(bg[r].score)
           THEN LET b == [bg EXCEPT ![r].cv_result_id = id]
                    s == StageFrom(bg[r].analysis_result, 1)
                IN IF s = "end" THEN FinishFile(r, entry)
                   ELSE IF s = "throw" THEN AbortLoop(r, entry)
                   ELSE /\ bg' = [b EXCEPT ![r].pc = s]
                        /\ log' = [log EXCEPT ![r][bg[r].i] = entry]
           ELSE FinishFile(r, entry)
  /\ UNCHANGED << variant, submissions, education_details, experience_details,
                  skill_details, req, poll, creditVars >>

\* server.js 167-185, v1 132-152, fn 61-81: the cv_results insert returns; an
\* error skips the file, otherwise the detail blocks run if the score allows
CvInserted(r, ok) ==
  /\ Outcome(ok)
  /\ bg[r].pc = "cvinsert"
  /\ IF ~ok
     THEN /\ FinishFile(r, [log[r][bg[r].i] EXCEPT !.failed = @ \cup {"cv"}])
          /\ UNCHANGED cv_results
     ELSE LET id == Len(cv_results) + 1
              entry == [log[r][bg[r].i] EXCEPT !.cv = id]
          IN /\ cv_results' = Append(cv_results, CvRow(r, id))
             /\ IF AboveThreshold(bg[r].score)
                THEN LET b == [bg EXCEPT ![r].cv_result_id = id]
                         s == StageFrom(bg[r].analysis_result, 1)
                     IN IF s = "end" THEN FinishFile(r, entry)
                        ELSE IF s = "throw" THEN AbortLoop(r, entry)
                        ELSE /\ bg' = [b EXCEPT ![r].pc = s]
                             /\ log' = [log EXCEPT ![r][bg[r].i] = entry]
                ELSE FinishFile(r, entry)
  /\ UNCHANGED << variant, submissions, education_details, experience_details,
                  skill_details, req, poll, creditVars >>

\* EduRecords that takes the newest cv_results row for the parent
EduRecords_NewestParent(r, base) ==
  LET items == bg[r].analysis_result.Edu.val
  IN [k \in 1 .. Len(items) |->
        [id |-> base + k, cv_result_id |-> Len(cv_results),
         institution |-> DbVal(items[k]), src |-> << r, bg[r].i >>]]

\* the rows built by the three map calls
EduRecords(r, base) ==
  LET items == bg[r].analysis_result.Edu.val
  IN [k \in 1 .. Len(items) |->
        [id |-> base + k, cv_result_id |-> bg[r].cv_result_id,
         institution |-> DbVal(items[k]), src |-> << r, bg[r].i >>]]

ExpRecords(r, base) ==
  LET items == bg[r].analysis_result.EXPERIENCE.val
  IN [k \in 1 .. Len(items) |->
        [id |-> base + k, cv_result_id |-> bg[r].cv_result_id,
         description |-> DbVal(items[k]), src |-> << r, bg[r].i >>]]

SkillRecords(r, base) ==
  LET items == bg[r].analysis_result.SKILLS.val
  IN [k \in 1 .. Len(items) |->
        [id |-> base + k, cv_result_id |-> bg[r].cv_result_id,
         category |-> DbVal(Index(items[k], 0)), details |-> DbVal(Index(items[k], 1)),
         src |-> << r, bg[r].i >>]]

\* server.js 189: the education_details insert returns; its error is not read
EduInserted(r, ok) ==
  /\ Outcome(ok)
  /\ bg[r].pc = "edu"
  /\ education_details' =
       IF ok THEN education_details \o EduRecords(r, Len(education_details))
       ELSE education_details
  /\ DetailsFrom(r, 2, IF ok THEN log[r][bg[r].i]
                       ELSE [log[r][bg[r].i] EXCEPT !.failed = @ \cup {"edu"}])
  /\ UNCHANGED << variant, submissions, cv_results, experience_details,
                  skill_details, req, poll, creditVars >>

\* server.js 193: the experience_details insert returns
ExpInserted(r, ok) ==
  /\ Outcome(ok)
  /\ bg[r].pc = "exp"
  /\ experience_details' =
       IF ok THEN experience_details \o ExpRecords(r, Len(experience_details))
       ELSE experience_details
  /\ DetailsFrom(r, 3, IF ok THEN log[r][bg[r].i]
                       ELSE [log[r][bg[r].i] EXCEPT !.failed = @ \cup {"exp"}])
  /\ UNCHANGED << variant, submissions, cv_results, education_details,
                  skill_details, req, poll, creditVars >>

\* server.js 197: the skill_details insert returns
SkillInserted(r, ok) ==
  /\ Outcome(ok)
  /\ bg[r].pc = "skill"
  /\ skill_details' =
       IF ok THEN skill_details \o SkillRecords(r, Len(skill_details))
       ELSE skill_details
  /\ DetailsFrom(r, 4, IF ok THEN log[r][bg[r].i]
                       ELSE [log[r][bg[r].i] EXCEPT !.failed = @ \cup {"skill"}])
  /\ UNCHANGED << variant, submissions, cv_results, education_details,
                  experience_details, req, poll, creditVars >>

(***************************************************************************)
(* Results reader: GET /api/results/:id (server.js 112-142).               *)
(***************************************************************************)
CvResultsOf(id) == SelectSeq(cv_results, LAMBDA cv : cv.submission_id = id)

\* one summary of server.js 134-138
Summary(cv) ==
  [id |-> cv.id, fileName |-> cv.original_filename,
   matchPercentage |-> ParseIntOrZero(cv.ats_score)]

\* The response to GET /api/results/:id when the select returns (dbOk) or
\* fails.  .single() reports an error when no row has the id.  A keywords
\* column that is null makes submission.keywords.split throw a TypeError.
GetResultsResponse(id, dbOk) ==
  LET found == dbOk /\ \E k \in 1 .. Len(submissions) : submissions[k].id = id
      submission == submissions[CHOOSE k \in 1 .. Len(submissions) : submissions[k].id = id]
      rows == CvResultsOf(id)
  IN IF ~found
     THEN [NoPoll EXCEPT !.id = id, !.outcome = "not-found", !.status = 404]
     ELSE IF Len(rows) = 0
     THEN [NoPoll EXCEPT !.id = id, !.outcome = "processing", !.status = 202]
     ELSE IF submission.keywords.type # "string"
     THEN [NoPoll EXCEPT !.id = id, !.outcome = "TypeError"]
     ELSE [id |-> id, outcome |-> "success", status |-> 200,
           totalCVs |-> Len(rows),
           analysisKeywords |-> LET parts == SplitComma(submission.keywords.val)
                                IN [k \in 1 .. Len(parts) |-> Trim(parts[k])],
           results |-> [k \in 1 .. Len(rows) |-> Summary(rows[k])]]

\* GetResults that removes the cv_results rows it has reported
GetResults_Consuming(id, dbOk) ==
  /\ variant = "server"
  /\ poll' = GetResultsResponse(id, dbOk)
  /\ cv_results' = IF dbOk THEN SelectSeq(cv_results, LAMBDA cv : cv.submission_id # id)
                   ELSE cv_results
  /\ UNCHANGED << variant, submissions, education_details, experience_details,
                  skill_details, req, bg, log, faults, creditVars >>

GetResults(id, dbOk) ==
  /\ variant = "server"
  /\ poll' = GetResultsResponse(id, dbOk)
  /\ UNCHANGED << variant, tables, req, bg, log, faults, creditVars >>

(***************************************************************************)
(* The pipeline.                                                           *)
(***************************************************************************)
PollIds == 1 .. MaxRequests

NextPipeline ==
  \/ \E r \in Requests, files \in Batches : ServerAnalyze(r, files)
  \/ \E r \in Requests, envOk \in BOOLEAN, user \in Users \cup {NoUser}, files \in Batches :
       EdgeServe(r, envOk, user, files)
  \/ \E r \in Requests, ok \in BOOLEAN : SubmissionInserted(r, ok)
  \/ \E r \in Requests : ReadBuffer(r)
  \/ \E r \in Requests, t \in 1 .. Len(ExtractOutcomes) : Extract(r, t)
  \/ \E r \in Requests, a \in 0 .. Len(AnalysisResults) : Analyze(r, a)
  \/ \E r \in Requests, ok \in BOOLEAN : CvInserted(r, ok)
  \/ \E r \in Requests, ok \in BOOLEAN : EduInserted(r, ok)
  \/ \E r \in Requests, ok \in BOOLEAN : ExpInserted(r, ok)
  \/ \E r \in Requests, ok \in BOOLEAN : SkillInserted(r, ok)

\* the submit pipeline of the three deployments, without the reader
SpecPipeline == Init /\ [][NextPipeline]_vars

Next ==
  \/ NextPipeline
  \/ \E id \in PollIds, dbOk \in BOOLEAN : GetResults(id, dbOk)

\* the pipeline and the results reader
Spec == Init /\ [][Next]_vars

(***************************************************************************)
(* The credit gate: the Deno.serve handler of src/unnamed/part_000.        *)
(***************************************************************************)
\* table keyword_lists(id, user_id, keywords); no handler writes it
KeywordLists ==
  << [id |-> 1, user_id |-> "u1", keywords |-> << "js", "sql" >>],
     [id |-> 2, user_id |-> "u2", keywords |-> << "go" >>] >>

\* JSON bodies of the requests: keywords and keyword_list_id (0: absent)
Bodies ==
  << [keywords |-> Arr(<< Str("rust") >>), keyword_list_id |-> 0],
     [keywords |-> Undefined, keyword_list_id |-> 1],
     [keywords |-> Undefined, keyword_list_id |-> 2],
     [keywords |-> Undefined, keyword_list_id |-> 3],
     [keywords |-> Str("rust"), keyword_list_id |-> 0],
     [keywords |-> Undefined, keyword_list_id |-> 0] >>

\* part_000 84-89: an exception becomes a 400 with its message
Thrown(c, message) == [creq[c] EXCEPT !.pc = "done", !.status = 400, !.error = message]

\* part_000 18-32: auth.getUser returns; without a user 401, otherwise the
\* profile select is issued
Authenticate(c, user, b) ==
  /\ creq[c].pc = "idle"
  /\ IF c = 1 THEN TRUE ELSE creq[c - 1].pc # "idle"
  /\ creq' = [creq EXCEPT ![c] =
       IF user = NoUser
       THEN [@ EXCEPT !.pc = "done", !.status = 401, !.error = "Unauthorized"]
       ELSE [@ EXCEPT !.pc = "profile", !.user = user, !.body = b]]
  /\ UNCHANGED << credits, granted, pipelineVars >>

\* part_000 61-65: inline keywords, read once no keyword_list_id is given
InlineKeywords(c) ==
  LET k == Bodies[creq[c].body].keywords
  IN IF Truthy(k) /\ IsArray(k)
     THEN [creq[c] EXCEPT !.pc = "rpc",
             !.finalKeywords = [j \in 1 .. Len(k.val) |-> k.val[j].val]]
     ELSE Thrown(c, "Keywords must be provided either as an array or via a keyword_list_id.")

\* part_000 28-65: the profile select returns.  No profile: an exception; no
\* credit: 402; otherwise the body is read and either the keyword list
\* select or the decrement is issued
ProfileRead(c, ok) ==
  /\ creq[c].pc = "profile"
  /\ creq' = [creq EXCEPT ![c] =
       IF ~ok THEN Thrown(c, "Could not retrieve user profile.")
       ELSE IF credits[creq[c].user] <= 0
       THEN [@ EXCEPT !.pc = "done", !.status = 402, !.error = "Insufficient credits"]
       ELSE IF Bodies[creq[c].body].keyword_list_id # 0
       THEN [@ EXCEPT !.pc = "list"]
       ELSE InlineKeywords(c)]
  /\ UNCHANGED << credits, granted, pipelineVars >>

\* ListRead without the comparison of the list's owner with the caller
ListRead_OwnerUnchecked(c, ok) ==
  /\ creq[c].pc = "list"
  /\ LET id == Bodies[creq[c].body].keyword_list_id
         found == ok /\ id \in 1 .. Len(KeywordLists)
     IN creq' = [creq EXCEPT ![c] =
          IF ~found
          THEN Thrown(c, "Keyword list not found or access denied.")
          ELSE [@ EXCEPT !.pc = "rpc", !.finalKeywords = KeywordLists[id].keywords]]
  /\ UNCHANGED << credits, granted, pipelineVars >>

\* part_000 50-60: the keyword_lists select returns; the list must exist and
\* belong to the caller
ListRead(c, ok) ==
  /\ creq[c].pc = "list"
  /\ LET id == Bodies[creq[c].body].keyword_list_id
         found == ok /\ id \in 1 .. Len(KeywordLists)
     IN creq' = [creq EXCEPT ![c] =
          IF ~found \/ KeywordLists[id].user_id # creq[c].user
          THEN Thrown(c, "Keyword list not found or access denied.")
          ELSE [@ EXCEPT !.pc = "rpc", !.finalKeywords = KeywordLists[id].keywords]]
  /\ UNCHANGED << credits, granted, pipelineVars >>

\* The datastore function decrement_credits(user_id_param, amount): one
\* conditional update, which reports an error when the balance does not
\* cover the amount.  << error, new balance >>
DecrementCreditsRpc(balance, amount) ==
  IF balance >= amount THEN << FALSE, balance - amount >> ELSE << TRUE, balance >>

\* AfterDecrement that does not read the error of the rpc
AfterDecrement_ErrorUnread(c, creditError) ==
  [creq[c] EXCEPT !.pc = "done", !.status = 200]

\* part_000 71-82: the response once the rpc has returned
AfterDecrement(c, creditError) ==
  IF creditError THEN Thrown(c, "Failed to decrement credits.")
  ELSE [creq[c] EXCEPT !.pc = "done", !.status = 200]

\* DecrementCredits that asks for an amount of 2
DecrementCredits_AmountTwo(c, ok) ==
  /\ creq[c].pc = "rpc"
  /\ LET u == creq[c].user
         res == IF ok THEN DecrementCreditsRpc(credits[u], 2) ELSE << TRUE, credits[u] >>
     IN /\ credits' = [credits EXCEPT ![u] = res[2]]
        /\ creq' = [creq EXCEPT ![c] = AfterDecrement(c, res[1])]
  /\ UNCHANGED << granted, pipelineVars >>

\* part_000 67-82: the decrement_credits rpc runs in the datastore and returns
\* (ok: the call reached the datastore)
DecrementCredits(c, ok) ==
  /\ creq[c].pc = "rpc"
  /\ LET u == creq[c].user
         res == IF ok THEN DecrementCreditsRpc(credits[u], 1) ELSE << TRUE, credits[u] >>
     IN /\ credits' = [credits EXCEPT ![u] = res[2]]
        /\ creq' = [creq EXCEPT ![c] = AfterDecrement(c, res[1])]
  /\ UNCHANGED << granted, pipelineVars >>

InitCredit ==
  /\ variant = "credit"
  /\ InitPipeline
  /\ credits \in [CreditUsers -> 0 .. MaxCredits]
  /\ granted = credits
  /\ creq = [c \in CreditRequests |-> IdleCreq]

NextCredit ==
  \/ \E c \in CreditRequests, user \in CreditUsers \cup {NoUser}, b \in 1 .. Len(Bodies) :
       Authenticate(c, user, b)
  \/ \E c \in CreditRequests, ok \in BOOLEAN : ProfileRead(c, ok)
  \/ \E c \in CreditRequests, ok \in BOOLEAN : ListRead(c, ok)
  \/ \E c \in CreditRequests, ok \in BOOLEAN : DecrementCredits(c, ok)

\* the credit gate alone
SpecCredit == InitCredit /\ [][NextCredit]_vars

(***************************************************************************)
(* Properties.                                                             *)
(***************************************************************************)
\* positions of the rows of table t that satisfy P
RowsWhere(t, P(_)) == { k \in 1 .. Len(t) : P(t[k]) }

\* request r was accepted: it carried a file and its submissions insert succeeded
Accepted(r) == req[r].status = 200

\* the background loop of request r has started on some file
LoopStarted(r) ==
  \/ bg[r].pc # "idle"
  \/ \E i \in 1 .. Len(log[r]) : log[r][i].state # "todo"
  \/ RowsWhere(cv_results, LAMBDA cv : cv.src[1] = r) # {}

\* C1: an accepted submit request has exactly one submissions row, written
\* by it and holding the keywords it supplied; the row exists in every state
\* in which the request's loop has started on a file; the submissionId of
\* the response is the id of that row and no other request was given it.
\* A request that was not accepted has no row.
C1_OneSubmissionPerRequest ==
  \A r \in Requests :
    LET rows == RowsWhere(submissions, LAMBDA row : row.src = r)
    IN /\ Cardinality(rows) = IF Accepted(r) THEN 1 ELSE 0
       /\ LoopStarted(r) => Accepted(r)
       /\ \A k \in rows :
            /\ req[r].keywords.type = "string" => submissions[k].keywords = req[r].keywords
            /\ req[r].submissionId = submissions[k].id
            /\ bg[r].submission_id = submissions[k].id
       /\ \A r2 \in Requests \ {r} :
            Accepted(r) /\ Accepted(r2) => req[r].submissionId # req[r2].submissionId

\* two accepted requests, one of them with keywords and with a cv_results row
C1_Witness ==
  /\ \A r \in Requests : Accepted(r)
  /\ \E r \in Requests :
       /\ req[r].keywords.type = "string"
       /\ RowsWhere(cv_results, LAMBDA cv : cv.src[1] = r) # {}

\* file i of request r is over (finished or aborted) with no text extracted
\* or no analysis result
NoResult(r, i) ==
  /\ log[r][i].state \in {"finished", "aborted"}
  /\ Supported(req[r].files[i])
  /\ ~Truthy(log[r][i].text) \/ log[r][i].analysis = Null

\* C2: a file whose extraction gave no text, or whose analysis failed or did
\* not parse, has no cv_results row; the caller keeps its success response;
\* the loop went on: the file ended normally and, unless it was the last,
\* the next file of the batch has been taken up.
C2_FailedFileSkipped ==
  \A r \in Requests : \A i \in 1 .. Len(log[r]) :
    NoResult(r, i) =>
      /\ RowsWhere(cv_results, LAMBDA cv : cv.src = << r, i >>) = {}
      /\ log[r][i].cv = 0
      /\ req[r].status = 200
      /\ log[r][i].state = "finished"
      /\ bg[r].i > i
      /\ i < Len(log[r]) => log[r][i + 1].state # "todo"

\* a batch whose first file failed in the analysis and whose second file has
\* a cv_results row
C2_Witness ==
  \E r \in Requests :
    /\ Len(log[r]) = 2
    /\ NoResult(r, 1) /\ Truthy(log[r][1].text)
    /\ log[r][2].cv # 0

\* the media type is one the claim names: image/* or application/pdf
NamedType(file) ==
  \/ Len(file.mimetype) >= 6 /\ SubSeq(file.mimetype, 1, 6) = "image/"
  \/ file.mimetype = "application/pdf"

\* C3: no cv_results row comes from a file whose media type neither starts
\* with image/ nor is application/pdf.
C3_UnsupportedNeverStored ==
  \A k \in 1 .. Len(cv_results) :
    NamedType(req[cv_results[k].src[1]].files[cv_results[k].src[2]])

\* a finished batch of an unsupported file and a supported one that has a row
C3_Witness ==
  \E r \in Requests :
    /\ bg[r].pc = "done"
    /\ Len(log[r]) = 2
    /\ ~NamedType(req[r].files[1])
    /\ log[r][1].state = "finished"
    /\ log[r][2].cv # 0

(***************************************************************************)
(* The integer prefix of a string in decimal notation, as a reader of the  *)
(* stored score takes it: optional white space and sign, then the longest  *)
(* run of the digits 0-9; 0 when there is no such run.                     *)
(***************************************************************************)
DecimalDigits == {"0", "1", "2", "3", "4", "5", "6", "7", "8", "9"}

RECURSIVE DecimalRun(_, _)
DecimalRun(s, i) ==
  IF i <= Len(s) /\ CharAt(s, i) \in DecimalDigits THEN DecimalRun(s, i + 1) ELSE i

RECURSIVE DecimalValue(_, _, _)
DecimalValue(s, i, j) ==
  IF j <= i THEN 0 ELSE 10 * DecimalValue(s, i, j - 1) + DigitVal(CharAt(s, j - 1))

IntegerPrefixOrZero(s) ==
  LET a == SkipSpace(s, 1)
      signed == a <= Len(s) /\ CharAt(s, a) \in {"-", "+"}
      b == IF signed THEN a + 1 ELSE a
      e == DecimalRun(s, b)
  IN IF e = b THEN 0
     ELSE (IF signed /\ CharAt(s, a) = "-" THEN -1 ELSE 1) * DecimalValue(s, b, e)

\* the leading integer of an ATS value of the analysis
LeadingInteger(v) == IntegerPrefixOrZero(JsToString(v))

\* the rows of detail table t that reference cv_results row id
DetailRows(t, id) == RowsWhere(t, LAMBDA d : d.cv_result_id = id)

\* C4: a cv_results row whose derived score, the leading integer of the ATS
\* value of its analysis (0 when there is none), is at most 65 is referenced
\* by no row of education_details, experience_details or skill_details.
C4_NoDetailsAtOrBelowThreshold ==
  \A k \in 1 .. Len(cv_results) :
    LET cv == cv_results[k]
        a == log[cv.src[1]][cv.src[2]].analysis
    IN LeadingInteger(a.ATS) <= ScoreThreshold =>
         /\ DetailRows(education_details, cv.id) = {}
         /\ DetailRows(experience_details, cv.id) = {}
         /\ DetailRows(skill_details, cv.id) = {}

\* number of elements of a supplied array; a value that is no array has none
NElems(v) == IF IsArray(v) THEN Len(v.val) ELSE 0

\* file i of request r has a cv_results row and a derived score above 65
Scored(r, i) ==
  /\ log[r][i].cv # 0
  /\ ParseIntOrZero(log[r][i].analysis.ATS) > ScoreThreshold

\* the detail table of a stage
StageTable(stage) ==
  CASE stage = "edu" -> education_details
    [] stage = "exp" -> experience_details
    [] stage = "skill" -> skill_details

StageNames == {"edu", "exp", "skill"}

\* C5 as stated: once a file with a derived score above 65 has finished, each
\* detail table holds as many rows for its cv_results row as the supplied
\* array has elements.
C5_DetailCountsAsStated ==
  \A r \in Requests : \A i \in 1 .. Len(log[r]) :
    Scored(r, i) /\ log[r][i].state = "finished" =>
      \A stage \in StageNames :
        Cardinality(DetailRows(StageTable(stage), log[r][i].cv))
          = NElems(StageField(log[r][i].analysis, stage))

\* C5, amended: once a file with a derived score above 65 has finished, each
\* detail table whose insert did not fail holds as many rows for its
\* cv_results row as the supplied array has elements, and a detail table
\* whose insert failed holds none; a file whose three arrays are all empty
\* or absent ends normally, with no row in any detail table.
C5_DetailCounts ==
  \A r \in Requests : \A i \in 1 .. Len(log[r]) :
    Scored(r, i) =>
      /\ log[r][i].state = "finished" =>
           \A stage \in StageNames :
             Cardinality(DetailRows(StageTable(stage), log[r][i].cv))
               = IF stage \in log[r][i].failed THEN 0
                 ELSE NElems(StageField(log[r][i].analysis, stage))
      /\ (\A stage \in StageNames :
            LET v == StageField(log[r][i].analysis, stage)
            IN v.type \in {"undefined", "null"} \/ (IsArray(v) /\ Len(v.val) = 0))
         => /\ log[r][i].state = "finished"
            /\ \A stage \in StageNames : DetailRows(StageTable(stage), log[r][i].cv) = {}

\* a finished file above the threshold whose education rows were written,
\* two for two elements, and whose experience insert failed; its one skill
\* row is there
C5_Witness ==
  \E r \in Requests : \E i \in 1 .. Len(log[r]) :
    /\ Scored(r, i) /\ log[r][i].state = "finished"
    /\ log[r][i].failed = {"exp"}
    /\ Cardinality(DetailRows(education_details, log[r][i].cv)) = 2
    /\ Cardinality(DetailRows(skill_details, log[r][i].cv)) = 1
    /\ DetailRows(experience_details, log[r][i].cv) = {}

\* C6: every row of the three detail tables references a cv_results row that
\* exists, and that row was written for the same file (the same iteration
\* of the same request's loop) as the detail row.
C6_DetailsHaveParent ==
  \A stage \in StageNames :
    \A k \in 1 .. Len(StageTable(stage)) :
      LET d == StageTable(stage)[k]
      IN \E j \in 1 .. Len(cv_results) :
           /\ cv_results[j].id = d.cv_result_id
           /\ cv_results[j].src = d.src

\* detail rows of a file processed after another request's file got its
\* cv_results row, and a file whose cv_results insert failed
C6_Witness ==
  /\ \E k \in 1 .. Len(education_details) : education_details[k].cv_result_id = 1
  /\ Len(cv_results) = 2
  /\ cv_results[1].src[1] # cv_results[2].src[1]
  /\ \E k \in 1 .. Len(skill_details) : skill_details[k].cv_result_id = 2

\* a file whose cv_results insert failed is over, with rows of a later file
\* in the detail tables
C6_WitnessFailedInsert ==
  \E r \in Requests : \E i \in 1 .. Len(log[r]) :
    /\ "cv" \in log[r][i].failed
    /\ Len(education_details) > 0

\* the requests of caller u that got past the credit gate and succeeded
Succeeded(u) == { c \in CreditRequests : creq[c].user = u /\ creq[c].status = 200 }

\* C7: of the requests of a caller who started with balance c at most c
\* succeed, however they interleave, and no balance is below zero.
C7_CreditGate ==
  \A u \in CreditUsers :
    /\ credits[u] >= 0
    /\ Cardinality(Succeeded(u)) <= granted[u]

\* two requests of a caller with one credit both passed the credit check;
\* one succeeded, the other one's decrement was refused
C7_Witness ==
  \E u \in CreditUsers : \E c, d \in CreditRequests :
    /\ granted[u] = 1 /\ credits[u] = 0
    /\ creq[c].user = u /\ creq[c].status = 200
    /\ creq[d].user = u /\ creq[d].status = 400
    /\ creq[d].error = "Failed to decrement credits."

\* C8: GET /api/results/:id answers not-found exactly when no submissions row
\* has the id, processing exactly when the row exists and no cv_results row
\* references it, and otherwise success with totalCVs the number of those
\* cv_results rows and one summary for each.
C8_GetResultsExact ==
  \A id \in PollIds :
    LET resp == GetResultsResponse(id, TRUE)
        exists == \E k \in 1 .. Len(submissions) : submissions[k].id = id
        n == Cardinality(RowsWhere(cv_results, LAMBDA cv : cv.submission_id = id))
    IN /\ resp.outcome = "not-found" <=> ~exists
       /\ resp.outcome = "processing" <=> (exists /\ n = 0)
       /\ exists /\ n > 0 =>
            /\ resp.outcome = "success"
            /\ resp.totalCVs = n
            /\ Len(resp.results) = n

\* C9: whenever the submissions row of a request exists, and so in every state
\* in which its background loop waits for an extraction, an analysis or an
\* insert, or has stopped or failed, the success response with the id of
\* that row has been sent.
C9_RespondsAtOnce ==
  \A r \in Requests :
    (bg[r].pc # "idle" \/ RowsWhere(submissions, LAMBDA row : row.src = r) # {}) =>
      /\ req[r].pc = "done"
      /\ req[r].status = 200
      /\ \E k \in 1 .. Len(submissions) :
           submissions[k].src = r /\ submissions[k].id = req[r].submissionId

\* the response is out while the first extraction of the batch is pending
C9_Witness ==
  \E r \in Requests :
    /\ bg[r].pc = "extract" /\ bg[r].i = 1
    /\ log[r][1].text = Null
    /\ req[r].status = 200 /\ req[r].submissionId # 0

\* the response is out and the loop has stopped on an error
C9_WitnessFailed ==
  \E r \in Requests :
    /\ bg[r].pc \in {"crashed", "caught"}
    /\ req[r].status = 200

\* C10: every summary of a success response has matchPercentage equal to the
\* integer prefix of the ats_score stored in its cv_results row, and 0 when
\* the stored value has no integer prefix or is null.
C10_MatchPercentageIsPrefix ==
  poll.outcome = "success" =>
    \A k \in 1 .. Len(poll.results) :
      LET stored == cv_results[poll.results[k].id].ats_score
      IN poll.results[k].matchPercentage =
           IF stored.type = "string" THEN IntegerPrefixOrZero(stored.val) ELSE 0

\* the submit request of slot r came without a keywords field
NoKeywords(r) == Len(req[r].files) > 0 /\ ~Truthy(req[r].keywords)

\* C11: a submit request that carries files but no keywords is rejected: it
\* never gets the success response (its answer is a 4xx status), and no
\* submissions row is written for it.
C11_NoKeywordsRejected ==
  \A r \in Requests :
    NoKeywords(r) =>
      /\ req[r].status # 200
      /\ RowsWhere(submissions, LAMBDA row : row.src = r) = {}

\* the submissions insert of request r has failed: the request had files, is
\* over, and left no row
InsertFailed(r) ==
  /\ req[r].pc = "done"
  /\ Len(req[r].files) > 0
  /\ RowsWhere(submissions, LAMBDA row : row.src = r) = {}

\* C12: a request whose submissions insert failed is answered with status
\* 500 and no submissionId, and no extraction, analysis or cv_results insert
\* is ever started for it.
C12_InsertFailureIs500 ==
  \A r \in Requests :
    InsertFailed(r) =>
      /\ req[r].status = 500
      /\ req[r].submissionId = 0
      /\ bg[r].pc = "idle"
      /\ \A i \in 1 .. Len(log[r]) : log[r][i].state = "todo"
      /\ RowsWhere(cv_results, LAMBDA cv : cv.src[1] = r) = {}

\* the keyword list that request c of the credit handler names, 0 if none
NamedList(c) == IF creq[c].body = 0 THEN 0 ELSE Bodies[creq[c].body].keyword_list_id

\* request c names an existing list that belongs to another caller
NamesForeignList(c) ==
  /\ NamedList(c) \in 1 .. Len(KeywordLists)
  /\ KeywordLists[NamedList(c)].user_id # creq[c].user

\* request c names an existing list that belongs to its caller
NamesOwnList(c) ==
  /\ NamedList(c) \in 1 .. Len(KeywordLists)
  /\ KeywordLists[NamedList(c)].user_id = creq[c].user

\* C13: a request that names a keyword list of another caller never
\* succeeds, ends with an error status and message, and at no time holds the
\* keywords of that list (they are neither used nor part of its answer); a
\* request that names a list of its own caller and gets as far as the
\* decrement, or succeeds, works with exactly the keywords of that list.
C13_ListOwnership ==
  \A c \in CreditRequests :
    /\ NamesForeignList(c) =>
         /\ creq[c].finalKeywords = << >>
         /\ creq[c].pc # "rpc"
         /\ creq[c].status # 200
         /\ creq[c].pc = "done" => creq[c].status \in 400 .. 499 /\ creq[c].error # ""
    /\ NamesOwnList(c) /\ (creq[c].pc = "rpc" \/ creq[c].status = 200) =>
         creq[c].finalKeywords = KeywordLists[NamedList(c)].keywords

\* one request was refused the list of another caller after the list was
\* read, another one succeeded with the list of its own caller
C13_Witness ==
  \E c, d \in CreditRequests :
    /\ NamesForeignList(c)
    /\ creq[c].status = 400
    /\ creq[c].error = "Keyword list not found or access denied."
    /\ NamesOwnList(d)
    /\ creq[d].status = 200
    /\ creq[d].finalKeywords # << >>

\* C14: in the authenticated deployments every submissions row belongs to a
\* caller with an identity whose balance was positive and has been
\* decremented for it.
C14_OnlyWithCredit ==
  variant \in {"v1", "fn"} =>
    \A k \in 1 .. Len(submissions) :
      LET u == submissions[k].user_id
      IN IF u \notin CreditUsers THEN FALSE
         ELSE granted[u] > 0 /\ credits[u] < granted[u]

CvInsertFailed(r, i) == "cv" \in log[r][i].failed

\* the loop of request r is in one of the detail blocks of file i
InDetails(r, i) == bg[r].i = i /\ bg[r].pc \in {"edu", "exp", "skill"}

\* C16: for a file whose cv_results insert failed no detail insert is issued,
\* whatever its score: the loop is never in a detail block of the file, no
\* detail row or failed detail insert comes from it, and the loop has gone
\* on to the next file of the batch.
C16_FailedPrimarySkipsDetails ==
  \A r \in Requests : \A i \in 1 .. Len(log[r]) :
    CvInsertFailed(r, i) =>
      /\ ~InDetails(r, i)
      /\ log[r][i].failed = {"cv"}
      /\ log[r][i].cv = 0
      /\ \A stage \in StageNames :
           RowsWhere(StageTable(stage), LAMBDA d : d.src = << r, i >>) = {}
      /\ log[r][i].state = "finished"
      /\ bg[r].i > i
      /\ i < Len(log[r]) => log[r][i + 1].state # "todo"

\* the cv_results insert of the first file failed although its score is
\* above the threshold, and the second file of the batch has its row
C16_Witness ==
  \E r \in Requests :
    /\ Len(log[r]) = 2
    /\ CvInsertFailed(r, 1)
    /\ ParseIntOrZero(log[r][1].analysis.ATS) > ScoreThreshold
    /\ log[r][2].cv # 0

\* a detail insert of file i of request r has failed
DetailInsertFailed(r, i) == log[r][i].failed \cap StageNames # {}

\* C17: for a file one of whose detail inserts failed, the cv_results row of
\* the file stays; the loop does not stop on the file; once the file is over
\* every other detail table holds the rows of its array, and the loop has
\* gone on to the next file of the batch.
C17_DetailFailureIgnored ==
  \A r \in Requests : \A i \in 1 .. Len(log[r]) :
    DetailInsertFailed(r, i) =>
      /\ log[r][i].cv \in 1 .. Len(cv_results)
      /\ cv_results[log[r][i].cv].src = << r, i >>
      /\ log[r][i].state # "aborted"
      /\ bg[r].pc \notin {"crashed", "caught"}
      /\ log[r][i].state = "finished" =>
           /\ \A stage \in StageNames \ log[r][i].failed :
                Cardinality(DetailRows(StageTable(stage), log[r][i].cv))
                  = NElems(StageField(log[r][i].analysis, stage))
           /\ bg[r].i > i
           /\ i < Len(log[r]) => log[r][i + 1].state # "todo"

\* C18: persisting an analysis result raises no error that ends the loop: no
\* background loop stops on a file, whatever the types of the fields of the
\* result, and so no file of a batch is left unvisited.
C18_NoUncaughtError ==
  \A r \in Requests :
    /\ bg[r].pc \notin {"crashed", "caught"}
    /\ \A i \in 1 .. Len(log[r]) : log[r][i].state # "aborted"

\* the cv_results rows written for file i of request r
RowsOfFile(r, i) == RowsWhere(cv_results, LAMBDA cv : cv.src = << r, i >>)

\* C19: a file has at most one cv_results row, and has one only if its
\* extraction gave non-empty text and its analysis gave a result; a
\* submission has no more cv_results rows than its request had files; and
\* rows stay as written: every cv_results row is at the id it was given with
\* the values taken from its file, text and analysis, and the submissions
\* row of every accepted request is there with the keywords it was given.
C19_OneRowPerAnalysedFile ==
  /\ \A r \in Requests : \A i \in 1 .. Len(log[r]) :
       /\ Cardinality(RowsOfFile(r, i)) <= 1
       /\ RowsOfFile(r, i) = IF log[r][i].cv = 0 THEN {} ELSE {log[r][i].cv}
       /\ RowsOfFile(r, i) # {} => Truthy(log[r][i].text) /\ log[r][i].analysis # Null
       /\ \A k \in RowsOfFile(r, i) :
            /\ cv_results[k].id = k
            /\ cv_results[k].submission_id = req[r].submissionId
            /\ cv_results[k].original_filename = req[r].files[i].originalname
            /\ cv_results[k].full_text = log[r][i].text
            /\ cv_results[k].ats_score = DbText(OrNull(log[r][i].analysis.ATS))
            /\ cv_results[k].candidate_name = DbVal(OrNull(log[r][i].analysis.Name))
  /\ \A k \in 1 .. Len(cv_results) :
       cv_results[k].src[1] \in Requests /\ cv_results[k].src[2] \in 1 .. Len(log[cv_results[k].src[1]])
  /\ \A s \in 1 .. Len(submissions) :
       /\ submissions[s].id = s
       /\ Cardinality(RowsWhere(cv_results, LAMBDA cv : cv.submission_id = s))
            <= Len(req[submissions[s].src].files)
  /\ \A r \in Requests :
       Accepted(r) =>
         /\ req[r].submissionId \in 1 .. Len(submissions)
         /\ submissions[req[r].submissionId].src = r
         /\ submissions[req[r].submissionId].keywords = DbVal(req[r].keywords)

\* a finished batch of two files: the first has its row, the second none
\* because its extraction gave no text
C19_Witness ==
  \E r \in Requests :
    /\ bg[r].pc = "done"
    /\ Len(log[r]) = 2
    /\ log[r][1].cv # 0
    /\ Supported(req[r].files[2]) /\ ~Truthy(log[r][2].text) /\ log[r][2].cv = 0
    /\ Cardinality(RowsWhere(cv_results, LAMBDA cv : cv.submission_id = req[r].submissionId)) = 1

\* the keywords a request supplied, as the reader presents them
KeywordsPresented(r) ==
  LET parts == SplitComma(req[r].keywords.val)
  IN [k \in 1 .. Len(parts) |-> Trim(parts[k])]

\* C20: every cv_results row references the submissions row written by the
\* request that uploaded the file of the row, and the analysis of that file
\* was asked with the keywords of that request; a success response of
\* GET /api/results/:id lists only rows of files of the request that created
\* submission id, under the names of those files, with that request's keywords.
C20_BatchIsolation ==
  /\ \A k \in 1 .. Len(cv_results) :
       LET r == cv_results[k].src[1]
           i == cv_results[k].src[2]
       IN /\ cv_results[k].submission_id \in 1 .. Len(submissions)
          /\ submissions[cv_results[k].submission_id].src = r
          /\ cv_results[k].submission_id = req[r].submissionId
          /\ log[r][i].keywords = req[r].keywords
  /\ poll.outcome = "success" =>
       LET r == submissions[poll.id].src
       IN /\ poll.analysisKeywords = KeywordsPresented(r)
          /\ \A j \in 1 .. Len(poll.results) :
               LET cv == cv_results[poll.results[j].id]
               IN /\ cv.src[1] = r
                  /\ poll.results[j].fileName = req[r].files[cv.src[2]].originalname

\* two batches with different keywords processed in interleaved order: the
\* row of the second request was written before the row of the first, and
\* the reader has answered for the second submission
C20_Witness ==
  /\ Len(cv_results) = 2
  /\ cv_results[1].src[1] = 2 /\ cv_results[2].src[1] = 1
  /\ req[1].keywords # req[2].keywords
  /\ poll.outcome = "success" /\ poll.id = 2
  /\ poll.totalCVs = 1
  /\ poll.analysisKeywords = << "go" >>

\* C21: once GET /api/results/:id has answered success for a submission, the
\* next answer for the same submission, whatever was inserted in between, is
\* success again, with totalCVs no smaller and with every summary of the
\* earlier answer at its place, unchanged.
C21_PollingMonotonic ==
  [][(poll.outcome = "success" /\ poll'.id = poll.id) =>
       /\ poll'.outcome = "success"
       /\ poll'.totalCVs >= poll.totalCVs
       /\ Len(poll'.results) >= Len(poll.results)
       /\ \A j \in 1 .. Len(poll.results) : poll'.results[j] = poll.results[j]]_vars

\* cv_results row id is referenced by a row of some detail table
HasDetails(id) == \E stage \in StageNames : DetailRows(StageTable(stage), id) # {}

\* C22: for every cv_results row that has a detail row, the matchPercentage
\* that a success response of GET /api/results/:id reports for it is
\* greater than 65.
C22_GateAgreesWithReport ==
  poll.outcome = "success" =>
    \A j \in 1 .. Len(poll.results) :
      HasDetails(poll.results[j].id) => poll.results[j].matchPercentage > ScoreThreshold

\* request c of the credit handler has its keywords resolved: from a list of
\* its caller, or from the array of its body
KeywordsResolved(c) ==
  \/ NamesOwnList(c) /\ creq[c].finalKeywords = KeywordLists[NamedList(c)].keywords
  \/ /\ NamedList(c) = 0
     /\ IsArray(Bodies[creq[c].body].keywords)
     /\ Len(creq[c].finalKeywords) = Len(Bodies[creq[c].body].keywords.val)

\* C23: in the credit handler every balance is the balance the caller started
\* with less one for each of the caller's requests that succeeded, so that a
\* request that ends in an error leaves it unchanged and a request that
\* succeeds lowers it by exactly 1; and the decrement is issued, and a request
\* succeeds, only with an identity, a balance that was positive and resolved
\* keywords.
C23_CreditFrame ==
  /\ \A u \in CreditUsers : credits[u] = granted[u] - Cardinality(Succeeded(u))
  /\ \A c \in CreditRequests :
       (creq[c].pc = "rpc" \/ creq[c].status = 200) =>
         /\ creq[c].user \in CreditUsers
         /\ granted[creq[c].user] > 0
         /\ KeywordsResolved(c)

\* a caller who started with two credits has one left: one request
\* succeeded, another one ended with the error of a foreign keyword list
C23_Witness ==
  \E u \in CreditUsers : \E c, d \in CreditRequests :
    /\ granted[u] = 2 /\ credits[u] = 1
    /\ creq[c].user = u /\ creq[c].status = 200
    /\ creq[d].user = u /\ creq[d].status = 400
    /\ creq[d].error = "Keyword list not found or access denied."

====
